---- MODULE Spec2Model ----
(***************************************************************************)
(* MarketController (src/infrastructure/web/controllers/                   *)
(* MarketController.ts): the two HTTP handlers getMarkets and              *)
(* getMarketById, the use cases they await, and the response they send.    *)
(*                                                                         *)
(* Representation of JavaScript values:                                    *)
(*   - a string of the request is the sequence of its characters (<<>> is  *)
(*     ""); literals of the code and messages of errors, which are only    *)
(*     copied, are TLA+ strings;                                           *)
(*   - an object (req.query, req.params, filters, a JSON body) is a        *)
(*     function whose DOMAIN is the set of its own keys;                    *)
(*   - a possibly-undefined value is <<>> (undefined) or <<v>>;            *)
(*   - a number is [nan |-> BOOLEAN, val |-> Int], NaN being its own value.*)
(* A handler runs without interruption up to its await and again from the  *)
(* settlement of the awaited promise to its end (one event-loop turn       *)
(* each), so each handler is a Begin action and a Resume action.           *)
(***************************************************************************)
EXTENDS Integers, Sequences, FiniteSets, TLC

(***************************************************************************)
(* Bounds                                                                  *)
(***************************************************************************)
\* Number of request slots, i.e. of requests that exist at the same time.
NumRequests == 2

Requests == 1..NumRequests

(***************************************************************************)
(* State: the requests, each with the effects its handler has performed so *)
(* far, and (for ConcSpec) what the collaborators have answered so far.    *)
(***************************************************************************)
VARIABLES req, collab

vars == <<req, collab>>

(***************************************************************************)
(* JavaScript values                                                       *)
(***************************************************************************)
Undefined == <<>>
Some(v) == <<v>>

\* An object with no own keys: `{}`.
EmptyObject == [k \in {} |-> 0]

\* obj[k] for an object of string values: undefined when k is not a key.
Prop(obj, k) == IF k \in DOMAIN obj THEN Some(obj[k]) ELSE Undefined

\* JavaScript truthiness of a string-or-undefined value: undefined and ""
\* are falsy, every other string (including "0") is truthy.
Truthy(o) == o # Undefined /\ o[1] # <<>>

\* obj with key k set to v: `obj[k] = v`.
Put(obj, k, v) == [x \in (DOMAIN obj) \cup {k} |-> IF x = k THEN v ELSE obj[x]]

NaN == [nan |-> TRUE, val |-> 0]
Num(n) == [nan |-> FALSE, val |-> n]

(***************************************************************************)
(* parseInt(string) with no radix argument (ECMAScript parseInt): leading  *)
(* white space is skipped, one sign is read, a 0x/0X prefix selects        *)
(* radix 16 (otherwise radix 10), the longest prefix of digits of that     *)
(* radix is the value, and no digit at all gives NaN.                      *)
(***************************************************************************)
WhiteSpace == {" "}
DecDigits == <<"0", "1", "2", "3", "4", "5", "6", "7", "8", "9">>
HexLower == <<"a", "b", "c", "d", "e", "f">>
HexUpper == <<"A", "B", "C", "D", "E", "F">>

IndexOf(seq, c) == IF \E i \in 1..Len(seq) : seq[i] = c
                   THEN CHOOSE i \in 1..Len(seq) : seq[i] = c
                   ELSE 0

\* The value of character c as a digit of the radix, or -1 when it is none.
DigitValue(c, radix) ==
    LET d == IF IndexOf(DecDigits, c) > 0 THEN IndexOf(DecDigits, c) - 1
             ELSE IF IndexOf(HexLower, c) > 0 THEN 9 + IndexOf(HexLower, c)
             ELSE IF IndexOf(HexUpper, c) > 0 THEN 9 + IndexOf(HexUpper, c)
             ELSE -1
    IN IF d < radix THEN d ELSE -1

RECURSIVE SkipWhiteSpace(_)
SkipWhiteSpace(s) ==
    IF s # <<>> /\ Head(s) \in WhiteSpace THEN SkipWhiteSpace(Tail(s)) ELSE s

\* Reads the longest prefix of digits of s; seen tells whether there was one.
RECURSIVE ReadDigits(_, _, _, _)
ReadDigits(s, radix, acc, seen) ==
    IF s # <<>> /\ DigitValue(Head(s), radix) >= 0
    THEN ReadDigits(Tail(s), radix, acc * radix + DigitValue(Head(s), radix), TRUE)
    ELSE [seen |-> seen, val |-> acc]

ParseInt(str) ==
    LET t == SkipWhiteSpace(str)
        negative == t # <<>> /\ Head(t) = "-"
        u == IF t # <<>> /\ Head(t) \in {"+", "-"} THEN Tail(t) ELSE t
        hex == Len(u) >= 2 /\ u[1] = "0" /\ u[2] \in {"x", "X"}
        radix == IF hex THEN 16 ELSE 10
        digits == IF hex THEN Tail(Tail(u)) ELSE u
        r == ReadDigits(digits, radix, 0, FALSE)
    IN IF ~r.seen THEN NaN
       ELSE Num(IF negative THEN 0 - r.val ELSE r.val)

(***************************************************************************)
(* getMarkets, lines 45-75: the filters built from req.query.              *)
(***************************************************************************)
createTms == <<"c", "r", "e", "a", "t", "e", "T", "m", "s">>
resolutionTime == <<"r", "e", "s", "o", "l", "u", "t", "i", "o", "n", "T", "i", "m", "e">>
asc == <<"a", "s", "c">>
desc == <<"d", "e", "s", "c">>

FilterStatus(query, filters) ==
    IF Truthy(Prop(query, "status"))
    THEN Put(filters, "status", query["status"])
    ELSE filters

FilterCreatorId(query, filters) ==
    IF Truthy(Prop(query, "creatorId"))
    THEN Put(filters, "creatorId", query["creatorId"])
    ELSE filters

\* Variant: the parsed number, not the string, is tested for truthiness.
FilterLimitDropsZero(query, filters) ==
    IF Truthy(Prop(query, "limit")) /\ ParseInt(query["limit"]) # Num(0)
                                     /\ ParseInt(query["limit"]) # NaN
    THEN Put(filters, "limit", ParseInt(query["limit"]))
    ELSE filters

FilterLimit(query, filters) ==
    IF Truthy(Prop(query, "limit"))
    THEN Put(filters, "limit", ParseInt(query["limit"]))
    ELSE filters

FilterOffset(query, filters) ==
    IF Truthy(Prop(query, "offset"))
    THEN Put(filters, "offset", ParseInt(query["offset"]))
    ELSE filters

\* Variant: any non-empty sortBy is forwarded.
FilterSortByUnchecked(query, filters) ==
    IF Truthy(Prop(query, "sortBy"))
    THEN Put(filters, "sortBy", query["sortBy"])
    ELSE filters

FilterSortBy(query, filters) ==
    IF Truthy(Prop(query, "sortBy"))
    THEN LET sortBy == query["sortBy"]
         IN IF sortBy = createTms \/ sortBy = resolutionTime
            THEN Put(filters, "sortBy", sortBy)
            ELSE filters
    ELSE filters

FilterSortOrder(query, filters) ==
    IF Truthy(Prop(query, "sortOrder"))
    THEN LET sortOrder == query["sortOrder"]
         IN IF sortOrder = asc \/ sortOrder = desc
            THEN Put(filters, "sortOrder", sortOrder)
            ELSE filters
    ELSE filters

\* Variant: the filters object is a field of the controller, shared with a
\* request that is still awaiting its use case.
NewFiltersShared ==
    IF \E s \in Requests : req[s].pc = "awaiting" /\ req[s].op = "getMarkets"
    THEN req[CHOOSE s \in Requests :
               req[s].pc = "awaiting" /\ req[s].op = "getMarkets"].events[1].arg
    ELSE EmptyObject

\* `const filters: MarketFilters = {}`: a fresh object for every request.
NewFilters == EmptyObject

\* Variant: the filters start as a copy of the query (`{...req.query}`).
BuildFiltersSpread(query) ==
    FilterSortOrder(query,
      FilterSortBy(query,
        FilterOffset(query,
          FilterLimit(query,
            FilterCreatorId(query,
              FilterStatus(query, query))))))

BuildFilters(query) ==
    FilterSortOrder(query,
      FilterSortBy(query,
        FilterOffset(query,
          FilterLimit(query,
            FilterCreatorId(query,
              FilterStatus(query, NewFilters))))))

(***************************************************************************)
(* The collaborators.  A use case or a DTO mapping either returns or       *)
(* throws; what is thrown is any JavaScript value.  The values thrown      *)
(* here: a NotFoundError, an Error with a message, an Error with the empty *)
(* message, and a plain object that has a message but is no Error.         *)
(***************************************************************************)
ThrownValues ==
    { [cls |-> "NotFoundError", message |-> "no market m1",
       stack |-> "NotFoundError: no market m1 at GetMarketByIdUseCase"],
      [cls |-> "Error", message |-> "db down",
       stack |-> "Error: db down at MarketRepository"],
      [cls |-> "Error", message |-> "",
       stack |-> "Error at MarketRepository"],
      [cls |-> "Object", message |-> "rejected",
       stack |-> "none"] }

\* Variant: every Error is taken for a NotFoundError.
InstanceOfNotFoundErrorAnyError(error) == error.cls \in {"Error", "NotFoundError"}

\* `error instanceof NotFoundError`
InstanceOfNotFoundError(error) == error.cls = "NotFoundError"

\* `error instanceof Error`; NotFoundError is a subclass of Error.
InstanceOfError(error) == error.cls \in {"Error", "NotFoundError"}

\* What one run of `await execute(..)` followed by the DTO mapping does:
\* execute throws, or it returns and the mapping throws, or neither throws.
\* Anything else thrown in the try block after the await and before the
\* response is written is caught the same way as a throw of the mapping.
Outcomes ==
    { o \in [execute : {Undefined} \cup {Some(t) : t \in ThrownValues},
             toDto   : {Undefined} \cup {Some(t) : t \in ThrownValues}] :
        o.execute # Undefined => o.toDto = Undefined }

\* The value thrown inside the try block after the await, if any.
ThrownBy(outcome) ==
    IF outcome.execute # Undefined THEN outcome.execute ELSE outcome.toDto

\* The entities the use cases return and their DTOs: opaque values that
\* are determined by the argument of the call.
MarketListOf(filters) == [entity |-> "MarketList", filters |-> filters]
MarketOf(id) == [entity |-> "Market", id |-> id]
marketListToDto(result) == [dto |-> "MarketListResponseDto", of |-> result]
marketToDto(result) == [dto |-> "MarketResponseDto", of |-> result]

(***************************************************************************)
(* Effects of a handler, in the order it performs them.                    *)
(***************************************************************************)
Execute(useCase, arg) == [ev |-> "execute", useCase |-> useCase, arg |-> arg]
ConsoleError(label, error) == [ev |-> "console.error", label |-> label, error |-> error]
\* `res.status(status).json(body)`
Send(status, body) == [ev |-> "res.json", status |-> status, body |-> body]

\* Variant: the message is read from whatever was thrown.
MessageOfAnything(error) == error.message

\* `error instanceof Error ? error.message : 'Unknown error'`
MessageOf(error) == IF InstanceOfError(error) THEN error.message ELSE "Unknown error"

\* Variant: the catch clause handles Errors only.
CatchesErrorsOnly(error) == error.cls \in {"Error", "NotFoundError"}

\* `catch (error)` catches every thrown value.
Catches(error) == TRUE

\* Variant: the list handler distinguishes NotFoundError as the item handler does.
GetMarketsCatchNotFound(error) ==
    IF error.cls = "NotFoundError"
    THEN << ConsoleError("Error fetching markets:", error),
            Send(404, [error |-> "Market not found", message |-> error.message]) >>
    ELSE << ConsoleError("Error fetching markets:", error),
            Send(500, [error |-> "Internal server error",
                       message |-> IF error.cls = "Error" THEN error.message
                                   ELSE "Unknown error"]) >>

\* getMarkets, lines 83-92.
GetMarketsCatch(error) ==
    << ConsoleError("Error fetching markets:", error),
       Send(500, [error |-> "Internal server error", message |-> MessageOf(error)]) >>

\* getMarkets, lines 78-82 and the catch block, from the settlement of
\* execute(filters) on.
GetMarketsTail(filters, outcome) ==
    IF ThrownBy(outcome) = Undefined
    THEN << Send(200, marketListToDto(MarketListOf(filters))) >>
    ELSE IF Catches(ThrownBy(outcome)[1])
         THEN GetMarketsCatch(ThrownBy(outcome)[1])
         ELSE << >>

\* Variant: only an absent market_id is taken as missing.
MissingIdOnlyUndefined(market_id) == market_id = Undefined

\* getMarketById, lines 141-147.
MissingId(market_id) == ~Truthy(market_id)

MissingIdResponse == << Send(400, [error |-> "Market ID is required"]) >>

\* Variant: a NotFoundError is answered before anything is logged.
GetMarketByIdCatchLogsLate(error) ==
    IF error.cls = "NotFoundError"
    THEN << Send(404, [error |-> "Market not found", message |-> error.message]),
            ConsoleError("Error fetching market by ID:", error) >>
    ELSE << ConsoleError("Error fetching market by ID:", error),
            Send(500, [error |-> "Internal server error",
                       message |-> IF error.cls = "Error" THEN error.message
                                   ELSE "Unknown error"]) >>

\* getMarketById, lines 155-173.
GetMarketByIdCatch(error) ==
    IF InstanceOfNotFoundError(error)
    THEN << ConsoleError("Error fetching market by ID:", error),
            Send(404, [error |-> "Market not found", message |-> error.message]) >>
    ELSE << ConsoleError("Error fetching market by ID:", error),
            Send(500, [error |-> "Internal server error", message |-> MessageOf(error)]) >>

\* getMarketById, lines 150-154 and the catch block.
GetMarketByIdTail(market_id, outcome) ==
    IF ThrownBy(outcome) = Undefined
    THEN << Send(200, marketToDto(MarketOf(market_id))) >>
    ELSE IF Catches(ThrownBy(outcome)[1])
         THEN GetMarketByIdCatch(ThrownBy(outcome)[1])
         ELSE << >>

\* How the promise of the async handler settles.
Settlement(outcome) ==
    IF ThrownBy(outcome) # Undefined /\ ~Catches(ThrownBy(outcome)[1])
    THEN "rejected"
    ELSE "fulfilled"

(***************************************************************************)
(* Inputs.                                                                 *)
(***************************************************************************)
Opt(S) == {Undefined} \cup {Some(v) : v \in S}

StatusSamples == { <<>>, <<"o", "p", "e", "n">> }
CreatorIdSamples == { <<>>, <<"u", "1">> }
LimitSamples == { <<>>, <<"0">>, <<"1", "0">>, <<"a", "b", "c">>, <<"-", "5">>,
                  <<"7", "x">>, <<"0", "x", "1", "F">> }
OffsetSamples == { <<>>, <<"0">>, <<"1", "0">>, <<"a", "b", "c">>, <<" ", "4", "2">> }
SortBySamples == { <<>>, createTms, resolutionTime,
                   <<"c", "r", "e", "a", "t", "e", "t", "m", "s">> }
SortOrderSamples == { <<>>, asc, desc, <<"A", "S", "C">> }
PageSamples == { <<"2">> }

QueryKeys == {"status", "creatorId", "limit", "offset", "sortBy", "sortOrder", "page"}

\* The object whose keys are the defined fields of shape.
ObjectOf(shape) ==
    [k \in {x \in DOMAIN shape : shape[x] # Undefined} |-> shape[k][1]]

\* req.query: every combination of the sampled values, each key present or not.
Queries ==
    { ObjectOf(shape) : shape \in
        [status : Opt(StatusSamples), creatorId : Opt(CreatorIdSamples),
         limit : Opt(LimitSamples), offset : Opt(OffsetSamples),
         sortBy : Opt(SortBySamples), sortOrder : Opt(SortOrderSamples),
         page : Opt(PageSamples)] }

IdSamples == { <<>>, <<"m", "1">>, <<"0">> }

\* req.params: market_id absent, empty or not.
Params == { ObjectOf(shape) : shape \in [market_id : Opt(IdSamples)] }

(***************************************************************************)
(* Initial state and the handlers.                                         *)
(***************************************************************************)
\* outcome records what the collaborators did in the request, once they did.
Idle == [op |-> "none", pc |-> "idle", input |-> EmptyObject, events |-> <<>>,
         outcome |-> Undefined]

Init ==
    /\ req = [r \in Requests |-> Idle]
    /\ collab = [list |-> EmptyObject, item |-> EmptyObject]

\* getMarkets up to `await this.getMarketsUseCase.execute(filters)`.
BeginGetMarkets(r, query) ==
    /\ req[r].pc = "idle"
    /\ req' = [req EXCEPT ![r] =
                 [op |-> "getMarkets", pc |-> "awaiting", input |-> query,
                  events |-> << Execute("GetMarketsUseCase", BuildFilters(query)) >>,
                  outcome |-> Undefined]]

\* getMarkets from the settlement of execute(filters) to its end.
ResumeGetMarkets(r, outcome) ==
    /\ req[r].pc = "awaiting"
    /\ req[r].op = "getMarkets"
    /\ req' = [req EXCEPT ![r].pc = Settlement(outcome),
                          ![r].events = @ \o GetMarketsTail(@[1].arg, outcome),
                          ![r].outcome = Some(outcome)]

\* getMarketById up to `await this.getMarketByIdUseCase.execute(market_id)`,
\* or to its end when market_id is missing.
BeginGetMarketById(r, params) ==
    LET market_id == Prop(params, "market_id")
    IN /\ req[r].pc = "idle"
       /\ req' = [req EXCEPT ![r] =
                    IF MissingId(market_id)
                    THEN [op |-> "getMarketById", pc |-> "fulfilled", input |-> params,
                          events |-> MissingIdResponse, outcome |-> Undefined]
                    ELSE [op |-> "getMarketById", pc |-> "awaiting", input |-> params,
                          events |-> << Execute("GetMarketByIdUseCase", market_id[1]) >>,
                          outcome |-> Undefined]]

\* getMarketById from the settlement of execute(market_id) to its end.
ResumeGetMarketById(r, outcome) ==
    /\ req[r].pc = "awaiting"
    /\ req[r].op = "getMarketById"
    /\ req' = [req EXCEPT ![r].pc = Settlement(outcome),
                          ![r].events = @ \o GetMarketByIdTail(@[1].arg, outcome),
                          ![r].outcome = Some(outcome)]

\* The handler has returned: req, res and the handler's locals are dropped.
Retire(r) ==
    /\ req[r].pc \in {"fulfilled", "rejected"}
    /\ req' = [req EXCEPT ![r] = Idle]
    /\ UNCHANGED collab

(***************************************************************************)
(* Spec: requests arrive one at a time, with every input of Queries and    *)
(* Params, and the collaborators answer each call in any way.              *)
(***************************************************************************)
\* No other request exists: what keeps Spec to one request at a time.
Quiet(r) == \A s \in Requests \ {r} : req[s].pc = "idle"

ListRequest(r) ==
    /\ Quiet(r)
    /\ req[r].pc = "idle"
    /\ \E query \in Queries : BeginGetMarkets(r, query)
    /\ UNCHANGED collab

ListSettles(r) ==
    /\ req[r].pc = "awaiting"
    /\ \E outcome \in Outcomes : ResumeGetMarkets(r, outcome)
    /\ UNCHANGED collab

ItemRequest(r) ==
    /\ Quiet(r)
    /\ req[r].pc = "idle"
    /\ \E params \in Params : BeginGetMarketById(r, params)
    /\ UNCHANGED collab

ItemSettles(r) ==
    /\ req[r].pc = "awaiting"
    /\ \E outcome \in Outcomes : ResumeGetMarketById(r, outcome)
    /\ UNCHANGED collab

Next ==
    \E r \in Requests :
        \/ ListRequest(r)
        \/ ListSettles(r)
        \/ ItemRequest(r)
        \/ ItemSettles(r)
        \/ Retire(r)

Spec == Init /\ [][Next]_vars

(***************************************************************************)
(* ConcSpec: requests overlap, and the collaborators are deterministic:    *)
(* a call with an argument seen before is answered as it was before.       *)
(***************************************************************************)
ConcQueries ==
    { EmptyObject,
      [status |-> <<"o", "p", "e", "n">>],
      [limit |-> <<"a", "b", "c">>, sortBy |-> <<"n", "a", "m", "e">>] }

ConcParams == { EmptyObject, [market_id |-> <<"m", "1">>] }

\* The answers the collaborators choose from: no failure, a failure of
\* execute, a failure of the DTO mapping.
ConcOutcomes ==
    { o \in Outcomes :
        /\ o.execute # Undefined => o.execute[1].cls \in {"NotFoundError", "Object"}
        /\ o.toDto # Undefined => o.toDto[1].message = "db down" }

\* The answer to a call with argument arg may be outcome.
Answers(memo, arg, outcome) == arg \in DOMAIN memo => memo[arg] = outcome

ConcListRequest(r) ==
    /\ req[r].pc = "idle"
    /\ \E query \in ConcQueries : BeginGetMarkets(r, query)
    /\ UNCHANGED collab

ConcListSettles(r) ==
    \E outcome \in ConcOutcomes :
        /\ ResumeGetMarkets(r, outcome)
        /\ Answers(collab.list, req[r].events[1].arg, outcome)
        /\ collab' = [collab EXCEPT !.list = Put(@, req[r].events[1].arg, outcome)]

ConcItemRequest(r) ==
    /\ req[r].pc = "idle"
    /\ \E params \in ConcParams : BeginGetMarketById(r, params)
    /\ UNCHANGED collab

ConcItemSettles(r) ==
    \E outcome \in ConcOutcomes :
        /\ ResumeGetMarketById(r, outcome)
        /\ Answers(collab.item, req[r].events[1].arg, outcome)
        /\ collab' = [collab EXCEPT !.item = Put(@, req[r].events[1].arg, outcome)]

ConcNext ==
    \E r \in Requests :
        \/ ConcListRequest(r)
        \/ ConcListSettles(r)
        \/ ConcItemRequest(r)
        \/ ConcItemSettles(r)
        \/ Retire(r)

ConcSpec == Init /\ [][ConcNext]_vars

(***************************************************************************)
(* FairSpec: requests overlap, the collaborators answer each call in any   *)
(* way, and every awaited promise settles and its continuation is run.     *)
(***************************************************************************)
FairNext ==
    \E r \in Requests :
        \/ ConcListRequest(r)
        \/ ListSettles(r)
        \/ ConcItemRequest(r)
        \/ ItemSettles(r)
        \/ Retire(r)

FairSpec ==
    /\ Init
    /\ [][FairNext]_vars
    /\ \A r \in Requests : WF_vars(ListSettles(r)) /\ WF_vars(ItemSettles(r))

(***************************************************************************)
(* What a request has done so far.                                         *)
(***************************************************************************)
IsSend(e) == e.ev = "res.json"
IsExecute(e) == e.ev = "execute"
IsLog(e) == e.ev = "console.error"

Sent(r) == SelectSeq(req[r].events, IsSend)
Invoked(r) == SelectSeq(req[r].events, IsExecute)
Logged(r) == SelectSeq(req[r].events, IsLog)

Finished(r) == req[r].pc \in {"fulfilled", "rejected"}
ListRequests == {r \in Requests : req[r].op = "getMarkets"}
ItemRequests == {r \in Requests : req[r].op = "getMarketById"}

\* The value thrown in request r, if its collaborators have thrown one.
Failure(r) ==
    IF req[r].outcome = Undefined THEN Undefined ELSE ThrownBy(req[r].outcome[1])

RecognizedKeys == {"status", "creatorId", "limit", "offset", "sortBy", "sortOrder"}

\* The keys of a raw query whose value is a non-empty string.
NonEmptyKeys(query) == {k \in DOMAIN query : query[k] # <<>>}

m1 == <<"m", "1">>

(***************************************************************************)
(* C1. getMarketById with an absent or empty market_id answers 400 with    *)
(* the body {error: "Market ID is required"} and nothing else, and never   *)
(* invokes the use case; with any non-empty market_id the use case is      *)
(* invoked with exactly that identifier.                                   *)
(***************************************************************************)
C1_MissingIdIs400 ==
    \A r \in ItemRequests :
        IF "market_id" \notin DOMAIN req[r].input \/ req[r].input["market_id"] = <<>>
        THEN /\ req[r].pc = "fulfilled"
             /\ Len(req[r].events) = 1
             /\ Len(Sent(r)) = 1
             /\ Sent(r)[1].status = 400
             /\ DOMAIN Sent(r)[1].body = {"error"}
             /\ Sent(r)[1].body["error"] = "Market ID is required"
             /\ Invoked(r) = << >>
        ELSE /\ Len(Invoked(r)) = 1
             /\ Invoked(r)[1].useCase = "GetMarketByIdUseCase"
             /\ Invoked(r)[1].arg = req[r].input["market_id"]

C1_Witness ==
    \E r \in ItemRequests :
        /\ "market_id" \in DOMAIN req[r].input
        /\ req[r].input["market_id"] = <<>>
        /\ Len(Sent(r)) = 1
        /\ Sent(r)[1].status = 400

(***************************************************************************)
(* C2. getMarketById whose use case fails with a NotFoundError of message  *)
(* m answers 404 with {error: "Market not found", message: m}; 404 is      *)
(* never sent on success, for a failure of another kind or for a missing   *)
(* identifier.                                                             *)
(***************************************************************************)
C2_NotFoundIs404 ==
    \A r \in ItemRequests :
        /\ ( /\ Finished(r)
             /\ req[r].outcome # Undefined
             /\ req[r].outcome[1].execute # Undefined
             /\ req[r].outcome[1].execute[1].cls = "NotFoundError" )
           => /\ Len(Sent(r)) = 1
              /\ Sent(r)[1].status = 404
              /\ DOMAIN Sent(r)[1].body = {"error", "message"}
              /\ Sent(r)[1].body["error"] = "Market not found"
              /\ Sent(r)[1].body["message"] = req[r].outcome[1].execute[1].message
        /\ \A i \in 1..Len(Sent(r)) :
              Sent(r)[i].status = 404
              => /\ NonEmptyKeys(req[r].input) = {"market_id"}
                 /\ Failure(r) # Undefined
                 /\ Failure(r)[1].cls = "NotFoundError"

C2_Witness ==
    \E r \in ItemRequests :
        /\ req[r].input = [market_id |-> m1]
        /\ req[r].outcome # Undefined
        /\ req[r].outcome[1].execute # Undefined
        /\ req[r].outcome[1].execute[1].cls = "NotFoundError"
        /\ req[r].outcome[1].execute[1].message = "no market m1"
        /\ Len(Sent(r)) = 1
        /\ Sent(r)[1].status = 404

(***************************************************************************)
(* C3. A failure that is not classified (on getMarketById every failure    *)
(* that is no NotFoundError, a failure of the DTO mapping included; on     *)
(* getMarkets every failure) answers 500 with {error: "Internal server     *)
(* error", message: M}, M being the message of a thrown Error and          *)
(* "Unknown error" for a thrown value that is no Error.                    *)
(***************************************************************************)
C3_UnclassifiedIs500 ==
    \A r \in Requests :
        ( /\ Finished(r)
          /\ Failure(r) # Undefined
          /\ (r \in ListRequests \/ Failure(r)[1].cls # "NotFoundError") )
        => /\ Len(Sent(r)) = 1
           /\ Sent(r)[1].status = 500
           /\ DOMAIN Sent(r)[1].body = {"error", "message"}
           /\ Sent(r)[1].body["error"] = "Internal server error"
           /\ Sent(r)[1].body["message"] =
                 IF Failure(r)[1].cls \in {"Error", "NotFoundError"}
                 THEN Failure(r)[1].message
                 ELSE "Unknown error"

C3_Witness ==
    \E r \in ItemRequests :
        /\ req[r].outcome # Undefined
        /\ req[r].outcome[1].execute = Undefined
        /\ req[r].outcome[1].toDto # Undefined
        /\ req[r].outcome[1].toDto[1].cls = "Object"
        /\ Len(Sent(r)) = 1
        /\ Sent(r)[1].status = 500
        /\ Sent(r)[1].body["message"] = "Unknown error"

(***************************************************************************)
(* C4. getMarkets answers 200 or 500 and nothing else; a NotFoundError     *)
(* thrown by GetMarketsUseCase.execute answers 500 "Internal server        *)
(* error", not 404.                                                        *)
(***************************************************************************)
C4_ListIs200Or500 ==
    \A r \in ListRequests :
        /\ \A i \in 1..Len(Sent(r)) : Sent(r)[i].status \in {200, 500}
        /\ Finished(r) => Len(Sent(r)) = 1
        /\ ( /\ Finished(r)
             /\ req[r].outcome[1].execute # Undefined
             /\ req[r].outcome[1].execute[1].cls = "NotFoundError" )
           => /\ Sent(r)[1].status = 500
              /\ Sent(r)[1].body["error"] = "Internal server error"

C4_Witness ==
    \E r \in ListRequests :
        /\ Finished(r)
        /\ req[r].outcome[1].execute # Undefined
        /\ req[r].outcome[1].execute[1].cls = "NotFoundError"
        /\ Len(Sent(r)) = 1
        /\ Sent(r)[1].status = 500

(***************************************************************************)
(* C5. The filters handed to GetMarketsUseCase.execute contain sortBy      *)
(* exactly when the raw sortBy is "createTms" or "resolutionTime", and     *)
(* then equal to it; they contain sortOrder exactly when the raw sortOrder *)
(* is "asc" or "desc", and then equal to it.  Any other value is left out, *)
(* the use case is still invoked and the request is not rejected.          *)
(***************************************************************************)
C5_SortKeysAllowListed ==
    \A r \in ListRequests :
        /\ Len(Invoked(r)) = 1
        /\ Invoked(r)[1].useCase = "GetMarketsUseCase"
        /\ \A i \in 1..Len(Sent(r)) : Sent(r)[i].status # 400
        /\ LET filters == Invoked(r)[1].arg
               query == req[r].input
           IN /\ "sortBy" \in DOMAIN filters
                   <=> ( /\ "sortBy" \in DOMAIN query
                         /\ query["sortBy"] \in {createTms, resolutionTime} )
              /\ "sortBy" \in DOMAIN filters => filters["sortBy"] = query["sortBy"]
              /\ "sortOrder" \in DOMAIN filters
                   <=> ( /\ "sortOrder" \in DOMAIN query
                         /\ query["sortOrder"] \in {asc, desc} )
              /\ "sortOrder" \in DOMAIN filters => filters["sortOrder"] = query["sortOrder"]

C5_Witness ==
    \E r \in ListRequests :
        /\ "sortBy" \in DOMAIN req[r].input
        /\ req[r].input["sortBy"] = <<"c", "r", "e", "a", "t", "e", "t", "m", "s">>
        /\ "sortOrder" \in DOMAIN req[r].input
        /\ req[r].input["sortOrder"] = desc
        /\ Len(Invoked(r)) = 1
        /\ DOMAIN Invoked(r)[1].arg = {"sortOrder"}
        /\ Len(Sent(r)) = 1
        /\ Sent(r)[1].status = 200

(***************************************************************************)
(* C6. The keys of the filters are recognized keys that are present and    *)
(* non-empty in the raw query: no unrecognized key appears, an absent or   *)
(* empty key is left out and not defaulted (an empty query gives empty     *)
(* filters), and status and creatorId, when present and non-empty, are     *)
(* copied verbatim.                                                        *)
(***************************************************************************)
C6_OnlyRecognizedNonEmptyKeys ==
    \A r \in ListRequests :
        Len(Invoked(r)) = 1
        /\ LET filters == Invoked(r)[1].arg
               query == req[r].input
           IN /\ DOMAIN filters \subseteq RecognizedKeys \cap NonEmptyKeys(query)
              /\ \A k \in {"status", "creatorId"} :
                    k \in NonEmptyKeys(query)
                    => k \in DOMAIN filters /\ filters[k] = query[k]
              /\ DOMAIN query = {} => DOMAIN filters = {}

C6_Witness ==
    \E r \in ListRequests :
        /\ DOMAIN req[r].input = {"status", "creatorId", "page"}
        /\ req[r].input["status"] = <<>>
        /\ req[r].input["creatorId"] = <<"u", "1">>
        /\ Len(Invoked(r)) = 1
        /\ DOMAIN Invoked(r)[1].arg = {"creatorId"}

(***************************************************************************)
(* C7. A non-empty limit (offset) string is forwarded as its integer       *)
(* parse: "0" as 0, "10" as 10, a non-numeric string as NaN.  No limit or  *)
(* offset value makes the handler answer 400 or skip the use case.         *)
(***************************************************************************)
C7_LimitOffsetParsedAndForwarded ==
    \A r \in ListRequests :
        /\ Len(Invoked(r)) = 1
        /\ \A i \in 1..Len(Sent(r)) : Sent(r)[i].status # 400
        /\ LET filters == Invoked(r)[1].arg
               query == req[r].input
           IN \A k \in {"limit", "offset"} :
                 k \in NonEmptyKeys(query)
                 => /\ k \in DOMAIN filters
                    /\ filters[k] = ParseInt(query[k])
                    /\ query[k] = <<"0">> => filters[k] = Num(0)
                    /\ query[k] = <<"1", "0">> => filters[k] = Num(10)
                    /\ query[k] = <<"a", "b", "c">> => filters[k] = NaN

C7_Witness ==
    \E r \in ListRequests :
        /\ req[r].input = [limit |-> <<"1", "0">>, offset |-> <<"0">>,
                           sortBy |-> createTms, sortOrder |-> desc]
        /\ Len(Invoked(r)) = 1
        /\ Invoked(r)[1].arg = [limit |-> Num(10), offset |-> Num(0),
                                sortBy |-> createTms, sortOrder |-> desc]
        /\ Len(Sent(r)) = 1
        /\ Sent(r)[1].status = 200

\* A non-numeric limit is forwarded as NaN and the request is served.
C7_WitnessNaN ==
    \E r \in ListRequests :
        /\ req[r].input = [limit |-> <<"a", "b", "c">>]
        /\ Invoked(r)[1].arg = [limit |-> NaN]
        /\ Len(Sent(r)) = 1
        /\ Sent(r)[1].status = 200

(***************************************************************************)
(* C8. Neither handler re-throws: whatever the use case and the DTO        *)
(* mapping do, the promise of the handler is never rejected, a fulfilled   *)
(* handler has sent exactly one envelope, and a handler awaiting its use   *)
(* case does finish.                                                       *)
(***************************************************************************)
C8_NeverRethrows ==
    \A r \in Requests :
        /\ [](req[r].pc # "rejected")
        /\ [](req[r].pc = "fulfilled" => Len(Sent(r)) = 1)
        /\ (req[r].pc = "awaiting") ~> (req[r].pc = "fulfilled" /\ Len(Sent(r)) = 1)

C8_Witness ==
    \E r \in Requests :
        /\ req[r].pc = "fulfilled"
        /\ Failure(r) # Undefined
        /\ Failure(r)[1].cls = "Object"
        /\ Len(Sent(r)) = 1

(***************************************************************************)
(* C9. Two requests of the same operation with the same input, against     *)
(* deterministic collaborators, get the same envelope, whatever requests   *)
(* were handled before, between or together with them.                     *)
(***************************************************************************)
C9_SameInputSameEnvelope ==
    \A r1 \in Requests : \A r2 \in Requests :
        ( /\ Finished(r1)
          /\ Finished(r2)
          /\ req[r1].op = req[r2].op
          /\ req[r1].input = req[r2].input )
        => Sent(r1) = Sent(r2)

C9_Witness ==
    \E r1 \in Requests : \E r2 \in Requests :
        /\ r1 # r2
        /\ Finished(r1)
        /\ Finished(r2)
        /\ req[r1].op = "getMarkets"
        /\ req[r2].op = "getMarkets"
        /\ req[r1].input = req[r2].input
        /\ Len(Sent(r1)) = 1
        /\ Cardinality(DOMAIN collab.list) >= 2
        /\ Cardinality(DOMAIN collab.item) >= 1

(***************************************************************************)
(* C10. A request that ends with 404 or 500 has logged the raw error       *)
(* before it sent the envelope, and the body of the envelope has the       *)
(* fields error and message only, message being the message of the error   *)
(* or "Unknown error".                                                     *)
(***************************************************************************)
C10_LoggedBeforeSent ==
    \A r \in Requests :
        \A j \in 1..Len(req[r].events) :
            ( IsSend(req[r].events[j]) /\ req[r].events[j].status \in {404, 500} )
            => /\ Failure(r) # Undefined
               /\ \E i \in 1..(j - 1) :
                     /\ IsLog(req[r].events[i])
                     /\ req[r].events[i].error = Failure(r)[1]
               /\ DOMAIN req[r].events[j].body \subseteq {"error", "message"}
               /\ req[r].events[j].body["message"]
                     \in {Failure(r)[1].message, "Unknown error"}

C10_Witness ==
    \E r \in ItemRequests :
        /\ Len(req[r].events) = 3
        /\ IsLog(req[r].events[2])
        /\ IsSend(req[r].events[3])
        /\ req[r].events[3].status = 404

====
